---- MODULE Spec2Model ----
(***************************************************************************)
(* plexfs: a read-only FUSE driver over a Plex catalog.                    *)
(* The model follows src/src/fs.rs (PlexFS and its four Filesystem         *)
(* callbacks), src/src/api.rs (the requests the driver sends) and          *)
(* src/src/main.rs (how the driver is constructed).  The Plex server is    *)
(* the environment: every request either fails or answers from a catalog.  *)
(***************************************************************************)
EXTENDS Integers, Sequences, FiniteSets, TLC

VARIABLES
    argSection,  \* main's section, the value of --section on the command line
    section,     \* PlexFS.section
    kind,        \* PlexFS.kind
    entries,     \* PlexFS.entries: parent inode -> (name -> Entry), with its iteration order
    req,         \* the request the mounted session is answering, Idle between requests
    reply,       \* what the callback sent to its Reply* object
    calls,       \* the HTTP requests that callback issued, in order
    remote,      \* what the server did with those requests
    containers,  \* readdir's local containers when its crawl ended
    crawls,      \* per inode, how many times readdir ran its crawl branch
    frame        \* readdir's pc, start and size while its crawl runs request by request

vars == <<argSection, section, kind, entries, req, reply, calls, remote, containers, crawls, frame>>

----------------------------------------------------------------------------
(* Bounds of the exploration *)

MaxIno == 6          \* inodes 1..MaxIno are passed to the callbacks
MaxTotal == 130      \* largest X-Plex-Container-Total-Size the server declares
MaxLen == 2          \* largest read size; a body has at most MaxLen + 1 bytes
MaxBuckets == 2      \* readdir crawls no new inode once this many are cached

(* Program constants *)

PAGE_SIZE == 50
INO_ROOT == 1
ENOENT == 2
GET_SIZE == 100
SECTION_ARG == 10
MUSIC == 8
PERM == 292          \* 0o444
UID == 501
GID == 20

Min(a, b) == IF a < b THEN a ELSE b

Some(x) == <<x>>
None == <<>>

----------------------------------------------------------------------------
(* api::Item values the server holds.  Strings are sequences of characters. *)

NoPart == [key |-> <<>>, file |-> <<>>, size |-> 0]

NoMedia == [part |-> NoPart]

Directory(k, title) ==
    [type |-> "Directory", rating_key |-> k, title |-> title,
     last_viewed_at |-> 3, added_at |-> 1, updated_at |-> 2, media |-> NoMedia]

Track(k, title, part) ==
    [type |-> "Track", rating_key |-> k, title |-> title,
     last_viewed_at |-> 6, added_at |-> 4, updated_at |-> 5, media |-> [part |-> part]]

Video(title) ==
    [type |-> "Video", rating_key |-> 0, title |-> title,
     last_viewed_at |-> 0, added_at |-> 0, updated_at |-> 0, media |-> NoMedia]

\* The library: the item the server holds under rating key k is Catalog[k].
Catalog ==
    << Directory(1, <<"A", "/", "B">>),
       Directory(2, <<"A", "_", "B">>),
       Track(3, <<"t">>, [key |-> <<"p">>, file |-> <<"/", "x", "/", "s">>, size |-> 5]),
       Track(4, <<"u">>, NoPart),
       Video(<<"V">>) >>

Keys == 1..Len(Catalog)

Inos == 1..MaxIno

\* The track keys of the library, in key order.
TrackKeys == SelectSeq([k \in Keys |-> k], LAMBDA k : Catalog[k].type = "Track")

\* The i-th item (1-based) of the listing the server serves for inode ino:
\* the section lists the whole library round-robin, an item lists the tracks.
ListingItem(ino, i) ==
    IF ino = INO_ROOT
    THEN Catalog[((i - 1) % Len(Catalog)) + 1]
    ELSE Catalog[TrackKeys[((i + ino - 1) % Len(TrackKeys)) + 1]]

\* The lengths the listing of inode ino can have: only the section and the
\* directories of the library list anything.
Totals(ino) ==
    IF ino = INO_ROOT
    THEN {0, 1, PAGE_SIZE, PAGE_SIZE + 1, MaxTotal}
    ELSE IF ino - INO_ROOT \in Keys /\ Catalog[ino - INO_ROOT].type = "Directory"
         THEN {0, 1, PAGE_SIZE + 1}
         ELSE {0}

PageStarts == {s \in 0..MaxTotal : s % PAGE_SIZE = 0}

\* The byte at position pos of the stream behind a Part.
ByteAt(part, pos) == (part.size + pos) % 256

----------------------------------------------------------------------------
(* fs.rs: attributes *)

ROOT_DIR_ATTR ==
    [ino |-> INO_ROOT, size |-> 0, blocks |-> 0,
     atime |-> 0, mtime |-> 0, ctime |-> 0, crtime |-> 0,
     kind |-> "Directory", perm |-> PERM, nlink |-> 2,
     uid |-> UID, gid |-> GID, rdev |-> 0, flags |-> 0]

to_attr(item) ==
    CASE item.type = "Directory" ->
           Some([ino |-> INO_ROOT + item.rating_key, size |-> 0, blocks |-> 0,
                 atime |-> item.last_viewed_at, mtime |-> item.updated_at,
                 ctime |-> item.added_at, crtime |-> item.added_at,
                 kind |-> "Directory", perm |-> PERM, nlink |-> 1,
                 uid |-> UID, gid |-> GID, rdev |-> 0, flags |-> 0])
      [] item.type = "Track" ->
           Some([ino |-> INO_ROOT + item.rating_key, size |-> item.media.part.size,
                 blocks |-> 1,
                 atime |-> item.last_viewed_at, mtime |-> item.updated_at,
                 ctime |-> item.added_at, crtime |-> item.added_at,
                 kind |-> "RegularFile", perm |-> PERM, nlink |-> 1,
                 uid |-> UID, gid |-> GID, rdev |-> 0, flags |-> 0])
      [] OTHER -> None

\* The title taken as it is.
escape_nameUnescaped(s) == s

\* str::replace(s, "/", "_")
RECURSIVE escape_name(_)
escape_name(s) ==
    IF s = <<>>
    THEN <<>>
    ELSE <<IF Head(s) = "/" THEN "_" ELSE Head(s)>> \o escape_name(Tail(s))

\* path.split("/").last().unwrap(): what follows the last "/" of path.
RECURSIVE LastSegment(_)
LastSegment(path) ==
    IF \A i \in 1..Len(path) : path[i] # "/"
    THEN path
    ELSE LastSegment(Tail(path))

----------------------------------------------------------------------------
(* api.rs: the requests and what comes back *)

\* A Result is None for Err(_) and Some(v) for Ok(v).
\* A raw HTTP exchange is None when the transport or the decoding fails, and
\* otherwise carries the decoded items and the X-Plex-Container-Total-Size
\* header (None when the server sends none).
RawOk(items, header) == Some([items |-> items, header |-> header])

get_paged(raw) ==
    IF raw = None
    THEN None
    ELSE Some([container |-> [items |-> raw[1].items],
               total |-> IF raw[1].header = None THEN 0 ELSE raw[1].header[1]])

get(raw) ==
    IF get_paged(raw) = None THEN None ELSE Some(get_paged(raw)[1].container)

Call(fn, arg, k, start, size, key, range) ==
    [fn |-> fn, arg |-> arg, kind |-> k, start |-> start, size |-> size,
     key |-> key, range |-> range]

all(sec, k, start, size) == Call("all", sec, k, start, size, <<>>, <<>>)

metadata(rating_key) == Call("metadata", rating_key, 0, 0, GET_SIZE, <<>>, <<>>)

metadata_children(rating_key, start, size) ==
    Call("metadata_children", rating_key, 0, start, size, <<>>, <<>>)

file(part, offset, size) ==
    Call("file", 0, 0, 0, GET_SIZE, part.key, <<offset, offset + size>>)

\* What the server can answer to metadata(rating_key).
MetadataAnswers(rating_key) ==
    {None, RawOk(<<>>, None)}
    \cup (IF rating_key \in Keys
          THEN {RawOk(<<Catalog[rating_key]>>, Some(1)),
                RawOk(<<Catalog[rating_key], Catalog[Len(Catalog)]>>, Some(2))}
          ELSE {})

\* The page of at most PAGE_SIZE items at start, of a listing of len items.
Page(ino, start, len) ==
    [i \in 1..(Min(start + PAGE_SIZE, len) - start) |-> ListingItem(ino, start + i)]

\* A server for one crawl of ino: the listing has len items, the pages whose
\* start is in fails do not come back, the header is sent or not, and the
\* pages after the first declare later instead of len.
PageServer(ino, len, header, later, fails) ==
    [s \in PageStarts |->
        IF s \in fails
        THEN None
        ELSE RawOk(Page(ino, s, len),
                   IF header THEN Some(IF s = 0 THEN len ELSE later) ELSE None)]

----------------------------------------------------------------------------
(* fs.rs: readdir's crawl and the bucket it builds *)

PageCall(sec, k, ino, start) ==
    IF ino = INO_ROOT
    THEN all(sec, k, start, PAGE_SIZE)
    ELSE metadata_children(ino - INO_ROOT, start, PAGE_SIZE)

\* The while loop with <= for <.
RECURSIVE CrawlLoopInclusive(_, _, _, _)
CrawlLoopInclusive(server, start, size, acc) ==
    IF start <= size
    THEN LET r == get_paged(server[start])
         IN  CrawlLoopInclusive(server, start + PAGE_SIZE, size,
                       [containers |-> IF r # None
                                       THEN Append(acc.containers, r[1].container)
                                       ELSE acc.containers,
                        starts |-> Append(acc.starts, start)])
    ELSE acc

\* The while loop leaving at the first page that fails.
RECURSIVE CrawlLoopBreaking(_, _, _, _)
CrawlLoopBreaking(server, start, size, acc) ==
    IF start < size
    THEN LET r == get_paged(server[start])
         IN  IF r # None
             THEN CrawlLoopBreaking(server, start + PAGE_SIZE, size,
                       [containers |-> Append(acc.containers, r[1].container),
                        starts |-> Append(acc.starts, start)])
             ELSE [containers |-> acc.containers, starts |-> Append(acc.starts, start)]
    ELSE acc

\* The while loop of readdir: acc holds the containers pushed and the starts
\* requested so far.
RECURSIVE CrawlLoop(_, _, _, _)
CrawlLoop(server, start, size, acc) ==
    IF start < size
    THEN LET r == get_paged(server[start])
         IN  CrawlLoop(server, start + PAGE_SIZE, size,
                       [containers |-> IF r # None
                                       THEN Append(acc.containers, r[1].container)
                                       ELSE acc.containers,
                        starts |-> Append(acc.starts, start)])
    ELSE acc

\* The crawl asking for the first page a second time when it fails.
CrawlRetryingFirst(server) ==
    LET first == get_paged(server[0])
    IN  IF first # None
        THEN CrawlLoop(server, 0 + PAGE_SIZE, first[1].total,
                       [containers |-> <<first[1].container>>, starts |-> <<0>>])
        ELSE [containers |-> IF get_paged(server[0]) # None
                             THEN <<get_paged(server[0])[1].container>>
                             ELSE <<>>,
              starts |-> <<0, 0>>]

\* The containers readdir collects from a server, and the starts it requests.
Crawl(server) ==
    LET first == get_paged(server[0])
    IN  IF first # None
        THEN CrawlLoop(server, 0 + PAGE_SIZE, first[1].total,
                       [containers |-> <<first[1].container>>, starts |-> <<0>>])
        ELSE [containers |-> <<>>, starts |-> <<0>>]

Entry(rating_key, k, attr) == [rating_key |-> rating_key, kind |-> k, attr |-> attr]

\* An insert that keeps the entry a name already has.
InsertKeepingFirst(en, name, entry) == en @@ (name :> entry)

\* HashMap::insert on a name -> Entry map.
Insert(en, name, entry) == (name :> entry) @@ en

\* The body of the inner for loop of readdir, for one item.
InsertItem(en, item) ==
    CASE item.type = "Directory" ->
           Insert(en, escape_name(item.title),
                  Entry(item.rating_key, "RegularFile", to_attr(item)))
      [] item.type = "Track" ->
           Insert(en, LastSegment(item.media.part.file),
                  Entry(item.rating_key, "RegularFile", to_attr(item)))
      [] OTHER -> en

\* The inner for loop of readdir over items[lo..hi], from left to right.  The
\* range is halved and the left half compared with en so that TLC evaluates it
\* before the right half, which keeps the evaluation shallow.
RECURSIVE InsertItems(_, _, _, _)
InsertItems(en, items, lo, hi) ==
    IF lo > hi
    THEN en
    ELSE IF lo = hi
         THEN InsertItem(en, items[lo])
         ELSE LET mid == (lo + hi) \div 2
                  left == InsertItems(en, items, lo, mid)
              IN  IF left = en
                  THEN InsertItems(en, items, mid + 1, hi)
                  ELSE InsertItems(left, items, mid + 1, hi)

\* The outer for loop of readdir, from pages[c] on.
RECURSIVE InsertContainers(_, _, _)
InsertContainers(en, pages, c) ==
    IF c > Len(pages)
    THEN en
    ELSE InsertContainers(InsertItems(en, pages[c].items, 1, Len(pages[c].items)),
                          pages, c + 1)

\* The iteration orders a HashMap with key set S can have.
Orders(S) ==
    {o \in [1..Cardinality(S) -> S] : \A n \in S : \E i \in DOMAIN o : o[i] = n}

\* The listing with the rating key itself for the inode.
ListingKeyAsIno(bucket, offset) ==
    [j \in 1..(Len(bucket.order) - Min(offset, Len(bucket.order))) |->
        LET i == offset + j - 1
            name == bucket.order[i + 1]
        IN  [ino |-> bucket.map[name].rating_key,
             offset |-> i + 1,
             kind |-> bucket.map[name].kind,
             name |-> name]]

\* What reply.add receives for a bucket, skipping the first offset entries.
Listing(bucket, offset) ==
    [j \in 1..(Len(bucket.order) - Min(offset, Len(bucket.order))) |->
        LET i == offset + j - 1
            name == bucket.order[i + 1]
        IN  [ino |-> INO_ROOT + bucket.map[name].rating_key,
             offset |-> i + 1,
             kind |-> bucket.map[name].kind,
             name |-> name]]

----------------------------------------------------------------------------
(* The callbacks *)

\* A request of the kernel.  The size of a readdir request is the size of the
\* buffer behind its ReplyDirectory.
Req(op, ino, name, offset, size) ==
    [op |-> op, ino |-> ino, name |-> name, offset |-> offset, size |-> size]

Reply(k, attr, data, dir, errno) ==
    [kind |-> k, attr |-> attr, data |-> data, dir |-> dir, errno |-> errno]

ReplyEntry(attr) == Reply("entry", Some(attr), <<>>, <<>>, 0)
ReplyAttr(attr) == Reply("attr", Some(attr), <<>>, <<>>, 0)
ReplyData(data) == Reply("data", None, data, <<>>, 0)
ReplyOk(dir) == Reply("ok", None, <<>>, dir, 0)
ReplyError(errno) == Reply("error", None, <<>>, <<>>, errno)

\* No request is being answered.
Idle == Req("idle", 0, <<>>, 0, 0)
NoReply == Reply("none", None, <<>>, <<>>, 0)

\* What the server did during one request: page is None or Some of the
\* listing length, header, later total and failing starts of the crawl; meta
\* is <<>> or <<raw>> for the answer to metadata; body is <<>> or <<result>>
\* for the outcome of the ranged fetch.
Remote(page, meta, body) == [page |-> page, meta |-> meta, body |-> body]
NoRemote == Remote(None, <<>>, <<>>)

\* The names lookup is asked for.
Names == {<<"A", "_", "B">>, <<"s">>, <<>>}

\* The inodes readdir is asked for: the kernel sends readdir for the root and
\* for the inodes whose attributes say Directory.
DirInos ==
    {ino \in Inos : \/ ino = INO_ROOT
                    \/ /\ ino - INO_ROOT \in Keys
                       /\ Catalog[ino - INO_ROOT].type = "Directory"}

\* The offsets read and readdir are asked for.
Offsets == {0, 1}

\* The sizes of the reply buffer the kernel gives a readdir: one that holds
\* every listing of the library, and one of 56 bytes.
BufferSizes == {56, 4096}

\* The bytes ReplyDirectory::add needs for one entry: the 24 bytes of a
\* fuse_dirent and the name, padded to a multiple of 8.
EntrySize(name) == ((24 + Len(name) + 7) \div 8) * 8

\* What the reply buffer holds after reply.add was called for adds[i], ...,
\* with room bytes left: add leaves out an entry that does not fit and returns
\* true, which readdir does not look at, so the adds that follow are tried too.
RECURSIVE Added(_, _, _)
Added(adds, i, room) ==
    IF i > Len(adds)
    THEN <<>>
    ELSE IF EntrySize(adds[i].name) > room
         THEN Added(adds, i + 1, room)
         ELSE <<adds[i]>> \o Added(adds, i + 1, room - EntrySize(adds[i].name))

\* No readdir is in the middle of its crawl.
NoFrame == [pc |-> "none", start |-> 0, size |-> 0]

\* The section ids main is given on the command line.
Sections == {SECTION_ARG, SECTION_ARG + 1}

\* main: section is parsed from the command line, then
\* PlexFS::new(host, token, 10, Music), then fuse::mount.
Init ==
    /\ argSection \in Sections
    /\ section = SECTION_ARG
    /\ kind = MUSIC
    /\ entries = <<>>
    /\ req = Idle
    /\ reply = NoReply
    /\ calls = <<>>
    /\ remote = NoRemote
    /\ containers = <<>>
    /\ crawls = [i \in Inos |-> 0]
    /\ frame = NoFrame

\* What lookup replies from the cache.
LookupReply(cache, parent, name) ==
    IF parent \in DOMAIN cache
    THEN IF name \in DOMAIN cache[parent].map
         THEN IF cache[parent].map[name].attr # None
              THEN ReplyEntry(cache[parent].map[name].attr[1])
              ELSE ReplyError(ENOENT)
         ELSE ReplyError(ENOENT)
    ELSE ReplyError(ENOENT)

lookup(parent, name) ==
    /\ req = Idle
    /\ req' = Req("lookup", parent, name, 0, 0)
    /\ reply' = LookupReply(entries, parent, name)
    /\ calls' = <<>>
    /\ UNCHANGED <<frame, argSection, section, kind, entries, remote, containers, crawls>>

\* What getattr replies once metadata(ino - INO_ROOT) came back as result.
GetattrReply(result) ==
    IF result # None
    THEN IF Len(result[1].items) > 0
         THEN IF to_attr(result[1].items[1]) # None
              THEN ReplyAttr(to_attr(result[1].items[1])[1])
              ELSE ReplyError(ENOENT)
         ELSE ReplyError(ENOENT)
    ELSE ReplyError(ENOENT)

\* The inode itself taken for the rating key.
MetadataKeyIsIno(ino) == ino

\* The rating key getattr and read ask the server about.
MetadataKey(ino) == ino - INO_ROOT

\* getattr without its early return for the root.
getattrWithoutRootCase(ino) ==
    /\ req = Idle
    /\ req' = Req("getattr", ino, <<>>, 0, 0)
    /\ \E raw \in MetadataAnswers(MetadataKey(ino)) :
          /\ reply' = GetattrReply(get(raw))
          /\ calls' = <<metadata(MetadataKey(ino))>>
          /\ remote' = Remote(None, <<raw>>, <<>>)
    /\ UNCHANGED <<frame, argSection, section, kind, entries, containers, crawls>>

getattr(ino) ==
    /\ req = Idle
    /\ req' = Req("getattr", ino, <<>>, 0, 0)
    /\ IF ino = INO_ROOT
       THEN /\ reply' = ReplyAttr(ROOT_DIR_ATTR)
            /\ calls' = <<>>
            /\ remote' = NoRemote
       ELSE \E raw \in MetadataAnswers(MetadataKey(ino)) :
               /\ reply' = GetattrReply(get(raw))
               /\ calls' = <<metadata(MetadataKey(ino))>>
               /\ remote' = Remote(None, <<raw>>, <<>>)
    /\ UNCHANGED <<frame, argSection, section, kind, entries, containers, crawls>>

\* The whole body, whatever size was asked for.
ReadDataWhole(body, size) == body

\* reply.data(&body[0..cmp::min(size as usize, body.len())])
ReadData(body, size) == SubSeq(body, 1, Min(size, Len(body)))

\* The first n bytes the server sends for the stream of part from offset on.
Body(part, offset, n) == [i \in 1..n |-> ByteAt(part, offset + i - 1)]

\* What the server can answer to file(part, offset, size): a failure, or the
\* first n bytes of the stream from offset on.
FileAnswers(part, offset) ==
    {None} \cup {Some(Body(part, offset, n)) : n \in 0..(MaxLen + 1)}

\* What read replies once file(part, offset, size) came back as result.
ReadReply(result, size) ==
    IF result # None
    THEN ReplyData(ReadData(result[1], size))
    ELSE ReplyError(ENOENT)

\* Any first item taken for a Track.
IsItem(result) ==
    /\ result # None
    /\ Len(result[1].items) > 0

\* Whether read goes on to the ranged fetch once metadata came back as result.
IsTrack(result) ==
    /\ result # None
    /\ Len(result[1].items) > 0
    /\ result[1].items[1].type = "Track"

read(ino, offset, size) ==
    /\ req = Idle
    /\ req' = Req("read", ino, <<>>, offset, size)
    /\ IF ino = INO_ROOT
       THEN /\ reply' = ReplyError(ENOENT)
            /\ calls' = <<>>
            /\ remote' = NoRemote
       ELSE \E raw \in MetadataAnswers(MetadataKey(ino)) :
               IF IsTrack(get(raw))
               THEN LET part == get(raw)[1].items[1].media.part
                    IN  /\ calls' = <<metadata(MetadataKey(ino)), file(part, offset, size)>>
                        /\ \E body \in FileAnswers(part, offset) :
                              /\ reply' = ReadReply(body, size)
                              /\ remote' = Remote(None, <<raw>>, <<body>>)
               ELSE /\ calls' = <<metadata(MetadataKey(ino))>>
                    /\ reply' = ReplyError(ENOENT)
                    /\ remote' = Remote(None, <<raw>>, <<>>)
    /\ UNCHANGED <<frame, argSection, section, kind, entries, containers, crawls>>

\* The bucket readdir builds from the containers of its crawl, in one of the
\* iteration orders the map can have.
Buckets(pages) ==
    LET en == InsertContainers(<<>>, pages, 1)
    IN  {[map |-> en, order |-> o] : o \in Orders(DOMAIN en)}

\* The cache never consulted.
CachedNever(cache, ino) == FALSE

\* Whether readdir skips the crawl for ino.
Cached(cache, ino) == ino \in DOMAIN cache

\* The crawls the server can make of a listing of len items: which pages fail.
FailSets(len) == SUBSET {s \in PageStarts : s = 0 \/ s < len}

readdir(ino, offset) ==
    /\ req = Idle
    /\ \E size \in BufferSizes : req' = Req("readdir", ino, <<>>, offset, size)
    /\ IF ~Cached(entries, ino)
       THEN /\ Cardinality(DOMAIN entries) < MaxBuckets
            /\ \E len \in Totals(ino), header \in BOOLEAN, later \in {0, MaxTotal} :
                \E fails \in FailSets(len) :
                  LET crawl == Crawl(PageServer(ino, len, header, later, fails))
                  IN  /\ calls' = [i \in 1..Len(crawl.starts) |->
                                      PageCall(section, kind, ino, crawl.starts[i])]
                      /\ remote' = Remote(Some([len |-> len, header |-> header,
                                                later |-> later, fails |-> fails]),
                                          <<>>, <<>>)
                      /\ containers' = crawl.containers
                      /\ \E bucket \in Buckets(crawl.containers) :
                            /\ entries' = (ino :> bucket) @@ entries
                            /\ reply' = ReplyOk(Listing(bucket, offset))
            /\ crawls' = [crawls EXCEPT ![ino] = @ + 1]
       ELSE /\ calls' = <<>>
            /\ reply' = ReplyOk(Listing(entries[ino], offset))
            /\ UNCHANGED <<entries, remote, containers, crawls>>
    /\ UNCHANGED <<frame, argSection, section, kind>>

\* The session loop dropping the cache between two requests.
ReturnExpiring ==
    /\ req # Idle
    /\ req' = Idle
    /\ reply' = NoReply
    /\ calls' = <<>>
    /\ remote' = NoRemote
    /\ containers' = <<>>
    /\ entries' = <<>>
    /\ UNCHANGED <<frame, argSection, section, kind, crawls>>

\* The session loop of fuse::mount: the request is answered, the next one is read.
Return ==
    /\ req # Idle
    /\ req' = Idle
    /\ reply' = NoReply
    /\ calls' = <<>>
    /\ remote' = NoRemote
    /\ containers' = <<>>
    /\ UNCHANGED <<frame, argSection, section, kind, entries, crawls>>

Next ==
    \/ \E parent \in Inos, name \in Names : lookup(parent, name)
    \/ \E ino \in Inos : getattr(ino)
    \/ \E ino \in Inos, offset \in Offsets, size \in 1..MaxLen : read(ino, offset, size)
    \/ \E ino \in DirInos, offset \in Offsets : readdir(ino, offset)
    \/ Return

\* The mounted session, one callback per step, against a server whose
\* responses either fail or are well formed, with totals up to MaxTotal.
Spec == Init /\ [][Next]_vars

----------------------------------------------------------------------------
(* readdir's crawl request by request, against a server that may declare   *)
(* any total and send any header.  start and size are u64 in the code; the *)
(* model keeps Width bits of them.  The pages carry no items.              *)

Width == 8           \* bits of start and size
MaxFetches == 8      \* page requests one crawl is followed for

Wrap == 2 ^ Width

\* A header value that is not visible ASCII, for which HeaderValue::to_str()
\* is Err: told from Some(total) by its length.
Opaque == <<0, 0>>

\* What the request for the first page can come back with.
FirstPages ==
    {None, RawOk(<<>>, None), RawOk(<<>>, Opaque)}
    \cup {RawOk(<<>>, Some(total)) : total \in 0..(Wrap - 1)}

\* What the request for a later page can come back with: its total is not
\* looked at.
LaterPages == {None, RawOk(<<>>, None), RawOk(<<>>, Opaque)}

\* get_paged panics at h.to_str().unwrap().
Unreadable(raw) == raw # None /\ raw[1].header = Opaque

\* start += PAGE_SIZE on Width bits: None when the addition overflows and the
\* build checks overflow (a panic, pc "overflow"), the wrapped sum when it
\* does not check.
AddPageSize(n) ==
    IF n + PAGE_SIZE < Wrap
    THEN {Some(n + PAGE_SIZE)}
    ELSE {None, Some((n + PAGE_SIZE) % Wrap)}

\* The frame after a page came back and start += PAGE_SIZE gave sum.
Advanced(f, sum) ==
    IF sum = None
    THEN [f EXCEPT !.pc = "overflow"]
    ELSE [f EXCEPT !.pc = "loop", !.start = sum[1]]

\* readdir is called for an inode that has no bucket.
CrawlBegin(ino) ==
    /\ req = Idle
    /\ frame = NoFrame
    /\ ~Cached(entries, ino)
    /\ Cardinality(DOMAIN entries) < MaxBuckets
    /\ \E size \in BufferSizes : req' = Req("readdir", ino, <<>>, 0, size)
    /\ frame' = [pc |-> "first", start |-> 0, size |-> 0]
    /\ UNCHANGED <<argSection, section, kind, entries, reply, calls, remote,
                   containers, crawls>>

\* The request for the first page and what follows it up to the while loop.
CrawlFirst ==
    /\ frame.pc = "first"
    /\ calls' = Append(calls, PageCall(section, kind, req.ino, frame.start))
    /\ \E raw \in FirstPages :
          IF Unreadable(raw)
          THEN /\ frame' = [frame EXCEPT !.pc = "panic"]
               /\ UNCHANGED containers
          ELSE IF get_paged(raw) = None
               THEN /\ frame' = [frame EXCEPT !.pc = "insert"]
                    /\ UNCHANGED containers
               ELSE /\ containers' = Append(containers, get_paged(raw)[1].container)
                    /\ \E sum \in AddPageSize(frame.start) :
                          frame' = Advanced([frame EXCEPT !.size = get_paged(raw)[1].total], sum)
    /\ UNCHANGED <<argSection, section, kind, entries, req, reply, remote, crawls>>

\* One turn of the while loop.
CrawlPage ==
    /\ frame.pc = "loop"
    /\ frame.start < frame.size
    /\ Len(calls) < MaxFetches
    /\ calls' = Append(calls, PageCall(section, kind, req.ino, frame.start))
    /\ \E raw \in LaterPages :
          IF Unreadable(raw)
          THEN /\ frame' = [frame EXCEPT !.pc = "panic"]
               /\ UNCHANGED containers
          ELSE /\ containers' = (IF get_paged(raw) = None
                                 THEN containers
                                 ELSE Append(containers, get_paged(raw)[1].container))
               /\ \E sum \in AddPageSize(frame.start) : frame' = Advanced(frame, sum)
    /\ UNCHANGED <<argSection, section, kind, entries, req, reply, remote, crawls>>

\* The crawl is over: the bucket is built and stored, the listing is replied.
CrawlEnd ==
    /\ \/ frame.pc = "insert"
       \/ frame.pc = "loop" /\ ~(frame.start < frame.size)
    /\ \E bucket \in Buckets(containers) :
          /\ entries' = (req.ino :> bucket) @@ entries
          /\ reply' = ReplyOk(Listing(bucket, req.offset))
    /\ crawls' = [crawls EXCEPT ![req.ino] = @ + 1]
    /\ frame' = [frame EXCEPT !.pc = "done"]
    /\ UNCHANGED <<argSection, section, kind, req, calls, remote, containers>>

\* The session loop after a readdir that replied.
CrawlReturn ==
    /\ frame.pc = "done"
    /\ req' = Idle
    /\ reply' = NoReply
    /\ calls' = <<>>
    /\ remote' = NoRemote
    /\ containers' = <<>>
    /\ frame' = NoFrame
    /\ UNCHANGED <<argSection, section, kind, entries, crawls>>

NextCrawl ==
    \/ \E ino \in DirInos : CrawlBegin(ino)
    \/ CrawlFirst
    \/ CrawlPage
    \/ CrawlEnd
    \/ CrawlReturn

\* The mounted session answering readdir only, one page request per step.
SpecCrawl == Init /\ [][NextCrawl]_vars

----------------------------------------------------------------------------
(* Properties *)

\* The starts of the page requests of the request being answered.
Starts == [i \in 1..Len(calls) |-> calls[i].start]

\* The starts a complete crawl of a listing that declares total asks for.
StartsBelow(total) ==
    [i \in 1..(IF total <= PAGE_SIZE THEN 1 ELSE ((total - 1) \div PAGE_SIZE) + 1) |->
        (i - 1) * PAGE_SIZE]

\* A readdir that crawled is being answered.
Crawled == req.op = "readdir" /\ remote.page # None

\* C1: lookup(parent, name) resolves the name through the Entry Cache of
\* parent, which the first access to parent populates by crawling: after a
\* lookup the bucket of parent exists, whether or not readdir(parent) ran
\* before, and the reply is NotFound only when no entry of parent has the name.
C1_LookupPopulatesCache ==
    req.op = "lookup" =>
        /\ req.ino \in DOMAIN entries
        /\ reply.kind = "error" => req.name \notin DOMAIN entries[req.ino].map

\* C2: every entry readdir returns carries the node kind of its catalog item:
\* Directory for an api::Item::Directory, RegularFile for a Track.
C2_EntryKindOfItem ==
    req.op = "readdir" =>
        \A i \in DOMAIN reply.dir :
            reply.dir[i].kind =
                (IF Catalog[reply.dir[i].ino - INO_ROOT].type = "Directory"
                 THEN "Directory"
                 ELSE "RegularFile")

\* C3: the first readdir(ino) crawls exactly once; every later readdir(ino)
\* issues no request, leaves the cache as it is and lists entries of the
\* memoized bucket only.
C3_CacheMemoization ==
    [][/\ \A ino \in Inos : crawls'[ino] = (IF ino \in DOMAIN entries' THEN 1 ELSE 0)
       /\ (req'.op = "readdir" /\ req'.ino \notin DOMAIN entries) =>
              /\ crawls'[req'.ino] = crawls[req'.ino] + 1
              /\ Len(calls') >= 1
       /\ (req'.op = "readdir" /\ req'.ino \in DOMAIN entries) =>
              /\ calls' = <<>>
              /\ crawls' = crawls
              /\ entries' = entries
              /\ reply'.kind = "ok"
              /\ Len(reply'.dir) =
                     Len(entries[req'.ino].order) - Min(req'.offset, Len(entries[req'.ino].order))
              /\ \A i \in DOMAIN reply'.dir :
                    /\ reply'.dir[i].name \in DOMAIN entries[req'.ino].map
                    /\ reply'.dir[i].ino =
                           INO_ROOT + entries[req'.ino].map[reply'.dir[i].name].rating_key
      ]_vars

\* A readdir of a cached inode that lists entries without any request.
C3_Witness ==
    /\ req.op = "readdir"
    /\ calls = <<>>
    /\ crawls[req.ino] = 1
    /\ Len(reply.dir) >= 2

\* The items of all of pages, in order.
RECURSIVE Concat(_)
Concat(pages) ==
    IF pages = <<>> THEN <<>> ELSE Head(pages).items \o Concat(Tail(pages))

\* C4: when the first page declares total T and no page fails, the crawl asks
\* for exactly the starts 0, PAGE_SIZE, 2 * PAGE_SIZE, ... below T (start 0
\* alone when T <= PAGE_SIZE), once each and in increasing order, and collects
\* the T items of the listing in server order.
C4_PaginationComplete ==
    (Crawled /\ remote.page[1].header /\ remote.page[1].fails = {}) =>
        /\ Starts = StartsBelow(remote.page[1].len)
        /\ \A i \in DOMAIN calls : calls[i].size = PAGE_SIZE
        /\ Len(Concat(containers)) = remote.page[1].len
        /\ \A i \in 1..remote.page[1].len :
              Concat(containers)[i] = ListingItem(req.ino, i)

\* A complete crawl of three pages: starts 0, 50, 100 and MaxTotal items.
C4_Witness ==
    /\ Crawled
    /\ remote.page[1].header
    /\ remote.page[1].fails = {}
    /\ remote.page[1].len = MaxTotal
    /\ Starts = <<0, PAGE_SIZE, 2 * PAGE_SIZE>>
    /\ Len(Concat(containers)) = MaxTotal

\* The pages of a listing of len items at the given starts that did not fail.
RECURSIVE PagesKept(_, _, _, _)
PagesKept(ino, len, fails, starts) ==
    IF starts = <<>>
    THEN <<>>
    ELSE (IF Head(starts) \in fails
          THEN <<>>
          ELSE <<[items |-> Page(ino, Head(starts), len)]>>)
         \o PagesKept(ino, len, fails, Tail(starts))

C6_FirstPageFailure ==
    [][/\ (req'.op = "readdir" /\ remote'.page # None /\ 0 \in remote'.page[1].fails) =>
              /\ Starts' = <<0>>
              /\ containers' = <<>>
              /\ req'.ino \in DOMAIN entries'
              /\ DOMAIN entries'[req'.ino].map = {}
              /\ reply' = ReplyOk(<<>>)
       /\ \A ino \in Inos :
              (ino \in DOMAIN entries /\ DOMAIN entries[ino].map = {}) =>
                  /\ ino \in DOMAIN entries'
                  /\ entries'[ino] = entries[ino]
                  /\ crawls'[ino] = crawls[ino]
                  /\ (req'.ino = ino /\ req'.op = "readdir") =>
                         calls' = <<>> /\ reply' = ReplyOk(<<>>)
                  /\ (req'.ino = ino /\ req'.op = "lookup") =>
                         calls' = <<>> /\ reply' = ReplyError(ENOENT)
      ]_vars

\* A crawl of a section of MaxTotal items whose first page failed: one
\* request, an empty bucket and an empty listing.
C6_Witness ==
    /\ Crawled
    /\ req.ino = INO_ROOT
    /\ remote.page[1].len = MaxTotal
    /\ 0 \in remote.page[1].fails
    /\ Starts = <<0>>
    /\ DOMAIN entries[INO_ROOT].map = {}
    /\ reply = ReplyOk(<<>>)

\* The ranged fetch of the read being answered came back with a body.
GotBody == req.op = "read" /\ remote.body # <<>> /\ remote.body[1] # None

\* C7: when the ranged fetch returns a body of n bytes, read replies with
\* data of exactly min(size, n) bytes, the first min(size, n) bytes of that
\* body; a short body is data, not an error.
C7_ReadClamping ==
    GotBody =>
        /\ reply.kind = "data"
        /\ Len(reply.data) = Min(req.size, Len(remote.body[1][1]))
        /\ \A i \in 1..Len(reply.data) : reply.data[i] = remote.body[1][1][i]

\* A read of MaxLen bytes answered with the one byte the server sent.
C7_Witness ==
    /\ GotBody
    /\ req.size = MaxLen
    /\ Len(remote.body[1][1]) = 1
    /\ reply.kind = "data"
    /\ Len(reply.data) = 1

\* The first item of the metadata answer of the request being answered is a Track.
MetaIsTrack ==
    /\ remote.meta # <<>>
    /\ remote.meta[1] # None
    /\ Len(remote.meta[1][1].items) > 0
    /\ remote.meta[1][1].items[1].type = "Track"

\* C8: read of the root replies ENOENT without any request; read of another
\* inode first asks metadata(ino - INO_ROOT) and replies ENOENT when that
\* fails, returns no item or a first item that is not a Track, or when the
\* ranged fetch fails; the ranged fetch is requested only after the metadata
\* answer was a Track.
C8_ReadErrors ==
    req.op = "read" =>
        /\ req.ino = INO_ROOT => (calls = <<>> /\ reply = ReplyError(ENOENT))
        /\ req.ino # INO_ROOT =>
              /\ Len(calls) >= 1
              /\ calls[1] = metadata(req.ino - INO_ROOT)
              /\ ~MetaIsTrack => (Len(calls) = 1 /\ reply = ReplyError(ENOENT))
              /\ MetaIsTrack =>
                    /\ Len(calls) = 2
                    /\ calls[2].fn = "file"
                    /\ calls[2].key = remote.meta[1][1].items[1].media.part.key
                    /\ remote.body # <<>>
                    /\ remote.body[1] = None => reply = ReplyError(ENOENT)
        /\ \A i \in DOMAIN calls : calls[i].fn = "file" => (i = 2 /\ MetaIsTrack)

\* A read of a directory inode: metadata answers a Directory, no ranged fetch.
C8_Witness ==
    /\ req.op = "read"
    /\ req.ino # INO_ROOT
    /\ remote.meta # <<>>
    /\ remote.meta[1] # None
    /\ Len(remote.meta[1][1].items) > 0
    /\ remote.meta[1][1].items[1].type = "Directory"
    /\ Len(calls) = 1
    /\ reply = ReplyError(ENOENT)

\* C9: getattr(INO_ROOT + k) asks metadata(k) once; when the answer carries
\* the item of rating key k and that item is a Directory or a Track, the reply
\* is the attributes of that item with ino = INO_ROOT + k; when the fetch
\* fails, returns no item or a Video, the reply is ENOENT; distinct rating keys
\* give distinct inodes.
C9_GetattrByRatingKey ==
    (req.op = "getattr" /\ req.ino # INO_ROOT) =>
        /\ calls = <<metadata(req.ino - INO_ROOT)>>
        /\ remote.meta # <<>>
        /\ IF remote.meta[1] = None \/ Len(remote.meta[1][1].items) = 0
           THEN reply = ReplyError(ENOENT)
           ELSE LET item == remote.meta[1][1].items[1]
                IN  IF item.type \in {"Directory", "Track"}
                    THEN /\ reply.kind = "attr"
                         /\ item.rating_key = req.ino - INO_ROOT
                         /\ reply.attr[1].ino = req.ino
                         /\ reply.attr[1].kind =
                                (IF item.type = "Track" THEN "RegularFile" ELSE "Directory")
                         /\ reply.attr[1].size =
                                (IF item.type = "Track" THEN item.media.part.size ELSE 0)
                         /\ reply.attr[1].atime = item.last_viewed_at
                         /\ reply.attr[1].mtime = item.updated_at
                         /\ reply.attr[1].ctime = item.added_at
                         /\ reply.attr[1].perm = PERM
                         /\ \A k \in Keys :
                               (to_attr(Catalog[k]) # None
                                   /\ to_attr(Catalog[k])[1].ino = reply.attr[1].ino)
                               => k = item.rating_key
                    ELSE reply = ReplyError(ENOENT)

\* getattr of the inode of a Track answered with the attributes of that Track.
C9_Witness ==
    /\ req.op = "getattr"
    /\ req.ino # INO_ROOT
    /\ reply.kind = "attr"
    /\ reply.attr[1].ino = req.ino
    /\ reply.attr[1].kind = "RegularFile"
    /\ reply.attr[1].size > 0

\* C10: in every state getattr(INO_ROOT) issues no request and replies with
\* the same root attributes: ino INO_ROOT, a directory, read-only.
C10_RootAttributes ==
    (req.op = "getattr" /\ req.ino = INO_ROOT) =>
        /\ calls = <<>>
        /\ remote = NoRemote
        /\ reply.kind = "attr"
        /\ reply.attr[1] = [ino |-> INO_ROOT, size |-> 0, blocks |-> 0,
                            atime |-> 0, mtime |-> 0, ctime |-> 0, crtime |-> 0,
                            kind |-> "Directory", perm |-> PERM, nlink |-> 2,
                            uid |-> UID, gid |-> GID, rdev |-> 0, flags |-> 0]

\* getattr of the root answered once two buckets are cached.
C10_Witness ==
    /\ req.op = "getattr"
    /\ req.ino = INO_ROOT
    /\ reply.kind = "attr"
    /\ Cardinality(DOMAIN entries) >= 2

\* C11: every cached entry has a non-empty name, and the entry of a Track
\* exists only when the Track carries a non-empty Part whose file path ends in
\* a non-empty segment; an item without attributes (a Video) has no entry.
C11_VisibleEntries ==
    \A ino \in DOMAIN entries :
        \A name \in DOMAIN entries[ino].map :
            LET item == Catalog[entries[ino].map[name].rating_key]
            IN  /\ name # <<>>
                /\ item.type # "Video"
                /\ item.type = "Track" =>
                      /\ item.media.part # NoPart
                      /\ item.media.part.file # <<>>
                      /\ item.media.part.file[Len(item.media.part.file)] # "/"

\* C12: every entry (name n, inode i) that readdir(parent) returns has
\* i = INO_ROOT + rating_key of its item, and a lookup(parent, n) that follows
\* replies with the attributes of that same item, whose ino field is i.
C12_EnumerateLookupAgree ==
    [][/\ req'.op = "readdir" =>
            \A i \in DOMAIN reply'.dir :
                LET e == reply'.dir[i]
                    cached == entries'[req'.ino].map
                IN  /\ e.name \in DOMAIN cached
                    /\ e.ino = INO_ROOT + cached[e.name].rating_key
                    /\ cached[e.name].attr # None
                    /\ cached[e.name].attr[1].ino = e.ino
       /\ (/\ req'.op = "lookup"
           /\ req'.ino \in DOMAIN entries
           /\ req'.name \in DOMAIN entries[req'.ino].map) =>
              LET entry == entries[req'.ino].map[req'.name]
                  item == Catalog[entry.rating_key]
              IN  /\ reply'.kind = "entry"
                  /\ reply'.attr = entry.attr
                  /\ reply'.attr[1].ino = INO_ROOT + entry.rating_key
                  /\ reply'.attr[1].size = item.media.part.size
                  /\ reply'.attr[1].atime = item.last_viewed_at
                  /\ reply'.attr[1].mtime = item.updated_at
                  /\ reply'.attr[1].ctime = item.added_at
                  /\ reply'.attr[1].kind =
                         (IF item.type = "Track" THEN "RegularFile" ELSE "Directory")
      ]_vars

\* A lookup of the name "s" in a crawled root, answered with the attributes
\* of Track 3 under the inode readdir listed it with.
C12_Witness ==
    /\ req.op = "lookup"
    /\ req.ino = INO_ROOT
    /\ req.name = <<"s">>
    /\ reply.kind = "entry"
    /\ reply.attr[1].ino = INO_ROOT + 3
    /\ reply.attr[1].size = 5

\* C13: no name in the cache or in a listing contains "/"; the name of a
\* Directory is its title with every "/" replaced by "_" (title "A/B" gives
\* "A_B"), the name of a Track is what follows the last "/" of its Part's
\* file path.
C13_NameSafety ==
    /\ \A ino \in DOMAIN entries :
          \A name \in DOMAIN entries[ino].map :
              /\ \A i \in DOMAIN name : name[i] # "/"
              /\ LET item == Catalog[entries[ino].map[name].rating_key]
                 IN  /\ item.type = "Directory" =>
                           /\ Len(name) = Len(item.title)
                           /\ \A i \in DOMAIN name :
                                 name[i] = (IF item.title[i] = "/" THEN "_" ELSE item.title[i])
                     /\ item.type = "Track" =>
                           LET path == item.media.part.file
                               cut == Len(path) - Len(name)
                           IN  /\ cut >= 0
                               /\ \A i \in DOMAIN name : name[i] = path[cut + i]
                               /\ cut > 0 => path[cut] = "/"
    /\ \A i \in DOMAIN reply.dir : \A j \in DOMAIN reply.dir[i].name :
          reply.dir[i].name[j] # "/"
    /\ \A ino \in DOMAIN entries :
          \A name \in DOMAIN entries[ino].map :
              entries[ino].map[name].rating_key = 1 => name = <<"A", "_", "B">>

\* A root bucket and listing that hold the Directory titled "A/B" under the
\* name "A_B".
C13_Witness ==
    /\ req.op = "readdir"
    /\ req.ino = INO_ROOT
    /\ \E i \in DOMAIN reply.dir :
          /\ reply.dir[i].name = <<"A", "_", "B">>
          /\ reply.dir[i].ino = INO_ROOT + 1
    /\ entries[INO_ROOT].map[<<"A", "_", "B">>].rating_key = 1
    /\ Catalog[1].title = <<"A", "/", "B">>

\* The entries the readdir being answered sends back to the kernel.
Sent == Added(reply.dir, 1, req.size)

\* C14: readdir(ino, p) of a bucket of n entries returns the entries at
\* indices p, ..., n-1 of the one order of that bucket, the entry at index i
\* with position i + 1: the positions sent are p + 1, p + 2, ... without a
\* gap, so that calls resuming at the last position sent deliver every entry
\* exactly once.
C14_EnumerationOrder ==
    req.op = "readdir" =>
        \A j \in DOMAIN Sent :
            /\ Sent[j].offset = req.offset + j
            /\ Sent[j].name = entries[req.ino].order[req.offset + j]

\* Whether readdir gives item an entry, and under which name.
Named(item) == item.type \in {"Directory", "Track"}
NameOf(item) ==
    IF item.type = "Directory"
    THEN escape_name(item.title)
    ELSE LastSegment(item.media.part.file)

\* The largest index of items, at most i, of an item that gets the name n;
\* 0 when there is none.
RECURSIVE LastNamed(_, _, _)
LastNamed(items, n, i) ==
    IF i = 0
    THEN 0
    ELSE IF Named(items[i]) /\ NameOf(items[i]) = n
         THEN i
         ELSE LastNamed(items, n, i - 1)

\* C15: a bucket holds one entry per name, and so does a listing; when
\* several items of a crawl get the same name, the entry under that name is
\* the one of the item that comes last in the order of the fetched pages, and
\* every item that gets a name has its name in the bucket.
C15_LastWriteWins ==
    /\ Crawled =>
          LET items == Concat(containers)
              map == entries[req.ino].map
          IN  /\ \A n \in DOMAIN map :
                    LET last == LastNamed(items, n, Len(items))
                    IN  /\ last > 0
                        /\ map[n].rating_key = items[last].rating_key
                        /\ map[n].attr[1].ino = INO_ROOT + items[last].rating_key
              /\ \A i \in DOMAIN items : Named(items[i]) => NameOf(items[i]) \in DOMAIN map
    /\ \A i, j \in DOMAIN reply.dir : reply.dir[i].name = reply.dir[j].name => i = j
    /\ \A ino \in DOMAIN entries :
          /\ Len(entries[ino].order) = Cardinality(DOMAIN entries[ino].map)
          /\ \A n \in DOMAIN entries[ino].map :
                \E i \in DOMAIN entries[ino].order : entries[ino].order[i] = n

\* A crawl of two pages of the root: the Directories of keys 1 and 2 both get
\* the name "A_B", key 2 is last on the first page, key 1 comes again as the
\* only item of the second page and is the one the bucket holds.
C15_Witness ==
    /\ Crawled
    /\ req.ino = INO_ROOT
    /\ remote.page[1].len = PAGE_SIZE + 1
    /\ Len(containers) = 2
    /\ containers[1].items[PAGE_SIZE - 3].rating_key = 2
    /\ containers[2].items[1].rating_key = 1
    /\ entries[INO_ROOT].map[<<"A", "_", "B">>].rating_key = 1
    /\ \E i \in DOMAIN reply.dir : reply.dir[i].ino = INO_ROOT + 1
    /\ \A i \in DOMAIN reply.dir : reply.dir[i].ino # INO_ROOT + 2

\* C16: the byte range read asks the server for starts at offset and covers
\* exactly size bytes: its last byte is offset + size - 1.
C16_RangeExtent ==
    req.op = "read" =>
        \A i \in DOMAIN calls :
            calls[i].fn = "file" =>
                /\ calls[i].range[1] = req.offset
                /\ calls[i].range[2] = req.offset + req.size - 1
                /\ calls[i].range[2] - calls[i].range[1] + 1 = req.size

\* C17: the crawl of readdir(INO_ROOT) asks for the listing of the section
\* given on the command line, with the configured media kind, whatever that
\* section is.
C17_ConfiguredSection ==
    (Crawled /\ req.ino = INO_ROOT) =>
        \A i \in DOMAIN calls :
            /\ calls[i].fn = "all"
            /\ calls[i].arg = argSection
            /\ calls[i].kind = MUSIC

\* C18: lookup, getattr and read leave the cache as it is; readdir(ino)
\* changes it only by adding the bucket of ino when ino has none; a bucket
\* that exists is never removed, replaced or modified by any step.
C18_CacheFrame ==
    [][/\ req'.op # "readdir" => entries' = entries
       /\ req'.op = "readdir" =>
              DOMAIN entries' = DOMAIN entries \cup {req'.ino}
       /\ \A ino \in DOMAIN entries :
              /\ ino \in DOMAIN entries'
              /\ entries'[ino] = entries[ino]
      ]_vars

\* A readdir that crawls a Directory of the library and adds its non-empty
\* bucket next to the non-empty bucket of the root.
C18_Witness ==
    /\ Crawled
    /\ req.ino # INO_ROOT
    /\ DOMAIN entries = {INO_ROOT, req.ino}
    /\ DOMAIN entries[INO_ROOT].map # {}
    /\ DOMAIN entries[req.ino].map # {}

\* C19: every callback sends exactly one reply on every path, remote
\* failures included, and a remote failure shows as ENOENT only, or for
\* readdir as an ok listing: a readdir that stopped running has replied ok,
\* and a reply that is an error is ENOENT.
C19_ExactlyOneReply ==
    /\ frame.pc \in {"done", "panic", "overflow"} => reply.kind = "ok"
    /\ frame.pc \in {"first", "loop", "insert"} => reply = NoReply
    /\ reply.kind = "error" => reply.errno = ENOENT

\* The page requests a crawl needs for a declared total: max(1, ceil(total / PAGE_SIZE)).
FetchLimit(total) ==
    IF total <= PAGE_SIZE THEN 1 ELSE ((total - 1) \div PAGE_SIZE) + 1

\* C20: whatever total the first page declares within the width of start and
\* size, and whatever later pages do, the crawl loop ends after at most
\* max(1, ceil(total / PAGE_SIZE)) page requests; start grows by PAGE_SIZE
\* with every request and never wraps around.
C20_CrawlTerminates ==
    frame.pc # "none" =>
        /\ frame.pc # "overflow"
        /\ Len(calls) <= FetchLimit(frame.size)
        /\ frame.pc = "loop" => frame.start = PAGE_SIZE * Len(calls)
        /\ \A i \in DOMAIN calls : calls[i].start = PAGE_SIZE * (i - 1)

====
